---- MODULE Spec2Model ----
(***************************************************************************)
(* Project (frictionless/project/project.py): the orchestration of a      *)
(* sandbox Filesystem and a Database of Records.  Every Project method is  *)
(* modelled as the sequence of collaborator calls it makes; several        *)
(* callers run methods on one Project, as the HTTP handlers of             *)
(* server/file/read.py do.  Filesystem and Database are the              *)
(* collaborators project.py imports (lines 12-13); their operations are    *)
(* modelled after spec.md 4.1-4.3.                                         *)
(***************************************************************************)
EXTENDS Integers, Sequences, FiniteSets, TLC

VARIABLES files, records, pc, call, local, result, nops

vars == <<files, records, pc, call, local, result, nops>>

\* ------------------------------------------------------------------ bounds

\* Number of Project calls started in one behaviour.
MaxOps == 4

\* The longest source create_file is given when its name is examined.
MaxSourceLen == 4

\* ------------------------------------------------------------------ inputs

Callers == {1, 2}

\* File contents (bytes) a caller uploads.
Bytes == {1, 2}

\* File names a caller uploads, and names a caller renames to.
UploadNames == {"a.csv"}
RenameNames == {"b.csv"}

\* folder: Optional[str]; None is the empty path.
None == <<>>
Folders == {None, <<"f">>}

\* Caller-supplied paths, as '/'-separated segments; "/" as first segment
\* is an absolute path.  The escaping ones are the not_secure paths of
\* tests/project/test_json.py: "/path", "../path", "../" and "./".
SecureInputs ==
    {<<"a.csv">>, <<"b.csv">>, <<"f", "a.csv">>, <<"f", "..", "a.csv">>}
EscapingInputs == {<<"/", "path">>, <<"..", "path">>, <<"..">>, <<".">>}
PathInputs == SecureInputs \cup EscapingInputs

\* ------------------------------------------------- PathResolver (spec 4.1)

\* What a path that leaves the sandbox root normalises to.
Outside == <<"..">>

RECURSIVE Normalize(_, _)
Normalize(path, stack) ==
    IF path = <<>> THEN stack
    ELSE LET seg == Head(path)
             rest == Tail(path)
         IN  IF seg = "/" THEN Outside
             ELSE IF seg = "." THEN Normalize(rest, stack)
             ELSE IF seg = ".."
                  THEN IF stack = <<>> THEN Outside
                       ELSE Normalize(rest, SubSeq(stack, 1, Len(stack) - 1))
             ELSE Normalize(rest, Append(stack, seg))

\* The sandbox-relative path of the file a requested path names.
Resolve(path) == Normalize(path, <<>>)

\* resolve(root, path) fails with SecurityError unless the normalised path
\* is a descendant of the root (the root itself is none).
IsSecure(path) == Resolve(path) # Outside /\ Resolve(path) # <<>>

\* isFilename(path): no directory separators.
is_filename(path) == Len(path) = 1 /\ Head(path) # "/"

\* ---------------------------------------------------- values and sentinels

\* Python's None for an absent Record, and for an absent file.
NoRecord == [path |-> <<>>, fields |-> 0, errorCount |-> 0]
NoFile == [path |-> <<>>, record |-> NoRecord]

\* The indexing collaborator: index(path) -> Record, a function of the
\* file's content (its fields and its row-error count).
Index(path, bytes) == [path |-> path, fields |-> bytes, errorCount |-> bytes - 1]

Ok == ""

\* -------------------------------------------------- Filesystem (spec 4.2)
\* Each operation returns [error, files, path]: the error kind raised (Ok
\* when none), the filesystem afterwards and the sandbox-relative path
\* returned.

FsResult(error, fs, path) == [error |-> error, files |-> fs, path |-> path]

\* The disambiguated name createFile and copyFile use on a collision.
Suffixed == [n \in {"a.csv", "b.csv"} |->
                IF n = "a.csv" THEN "a (1).csv" ELSE "b (1).csv"]

\* The first free path for name in folder; Outside when both are taken.
Deduplicate(fs, folder, name) ==
    LET first == Resolve(folder \o <<name>>)
        second == IF name \in DOMAIN Suffixed
                  THEN Resolve(folder \o <<Suffixed[name]>>)
                  ELSE Outside
    IN  IF first \notin DOMAIN fs THEN first
        ELSE IF second \notin DOMAIN fs THEN second
        ELSE Outside

FsCreateFile(fs, name, bytes, folder) ==
    IF ~is_filename(<<name>>) \/ ~IsSecure(folder \o <<name>>)
    THEN FsResult("SecurityError", fs, <<>>)
    ELSE LET target == Deduplicate(fs, folder, name)
         IN  IF target = Outside
             THEN FsResult("ConflictError", fs, <<>>)
             ELSE FsResult(Ok, fs @@ (target :> bytes), target)

FsCopyFile(fs, path, folder) ==
    IF ~IsSecure(path) THEN FsResult("SecurityError", fs, <<>>)
    ELSE IF Resolve(path) \notin DOMAIN fs
    THEN FsResult("NotFoundError", fs, <<>>)
    ELSE LET name == Resolve(path)[Len(Resolve(path))]
             target == Deduplicate(fs, folder, name)
         IN  IF target = Outside
             THEN FsResult("ConflictError", fs, <<>>)
             ELSE FsResult(Ok, fs @@ (target :> fs[Resolve(path)]), target)

\* The file at source leaves for target, content preserved.
Relocate(fs, source, target) ==
    [p \in (DOMAIN fs \ {source}) \cup {target} |->
        IF p = target THEN fs[source] ELSE fs[p]]

FsMoveTo(fs, path, target) ==
    IF ~IsSecure(path) THEN FsResult("SecurityError", fs, <<>>)
    ELSE IF Resolve(path) \notin DOMAIN fs
    THEN FsResult("NotFoundError", fs, <<>>)
    ELSE IF target \in DOMAIN fs
    THEN FsResult("ConflictError", fs, <<>>)
    ELSE FsResult(Ok, Relocate(fs, Resolve(path), target), target)

FsMoveFile(fs, path, folder) ==
    IF ~IsSecure(path) THEN FsResult("SecurityError", fs, <<>>)
    ELSE FsMoveTo(fs, path, folder \o <<Resolve(path)[Len(Resolve(path))]>>)

FsRenameFile(fs, path, name) ==
    IF ~IsSecure(path) THEN FsResult("SecurityError", fs, <<>>)
    ELSE FsMoveTo(fs, path,
             SubSeq(Resolve(path), 1, Len(Resolve(path)) - 1) \o <<name>>)

FsDeleteFile(fs, path) ==
    IF ~IsSecure(path) THEN FsResult("SecurityError", fs, <<>>)
    ELSE IF Resolve(path) \notin DOMAIN fs
    THEN FsResult("NotFoundError", fs, <<>>)
    ELSE FsResult(Ok, [p \in DOMAIN fs \ {Resolve(path)} |-> fs[p]],
                  Resolve(path))

\* readFile(path) -> FileEntry: the entry carries the sandbox-relative path.
FsReadFile(fs, path) ==
    IF ~IsSecure(path) THEN FsResult("SecurityError", fs, <<>>)
    ELSE IF Resolve(path) \notin DOMAIN fs
    THEN FsResult("NotFoundError", fs, <<>>)
    ELSE FsResult(Ok, fs, Resolve(path))

\* The type the Filesystem gives a file, from its extension.
FileType(path) ==
    IF path[Len(path)] \in {"a.csv", "b.csv", "a (1).csv", "b (1).csv"}
    THEN "table"
    ELSE "json"

\* listFiles(): one entry, path and type, per regular file of the sandbox.
FsListFiles(fs) == {[path |-> p, type |-> FileType(p)] : p \in DOMAIN fs}

\* --------------------------------------------------- Database (spec 4.3)
\* Records are keyed by the path the caller of the Database hands it.
\* Each mutating operation returns [error, records, record].

DbResult(error, recs, record) ==
    [error |-> error, records |-> recs, record |-> record]

\* createRecord: ConflictError when the key is taken; the resource is read
\* by the indexing collaborator, which needs the file.
DbCreateRecord(recs, fs, path) ==
    IF path \in DOMAIN recs THEN DbResult("ConflictError", recs, NoRecord)
    ELSE IF Resolve(path) \notin DOMAIN fs
    THEN DbResult("NotFoundError", recs, NoRecord)
    ELSE LET record == Index(path, fs[Resolve(path)])
         IN  DbResult(Ok, recs @@ (path :> record), record)

DbReadRecord(recs, path) ==
    IF path \in DOMAIN recs THEN recs[path] ELSE NoRecord

DbListRecords(recs) == {recs[k] : k \in DOMAIN recs}

\* moveRecord: no-op when no Record is keyed at the old path.
DbMoveRecord(recs, source, target) ==
    IF source \notin DOMAIN recs THEN DbResult(Ok, recs, NoRecord)
    ELSE IF target \in DOMAIN recs /\ target # source
    THEN DbResult("ConflictError", recs, NoRecord)
    ELSE LET moved == [recs[source] EXCEPT !.path = target]
         IN  DbResult(Ok,
                 [k \in (DOMAIN recs \ {source}) \cup {target} |->
                     IF k = target THEN moved ELSE recs[k]],
                 moved)

\* deleteRecord: no-op when absent.
DbDeleteRecord(recs, path) ==
    DbResult(Ok, [k \in DOMAIN recs \ {path} |-> recs[k]], NoRecord)

\* readTable(path): NotFoundError when no Record (and so no table) exists.
DbReadTable(recs, path) ==
    IF path \in DOMAIN recs
    THEN [error |-> Ok, data |-> recs[path].fields]
    ELSE [error |-> "NotFoundError", data |-> 0]

\* The directory of the sandbox, and the absolute path of a resolved path.
Basepath == <<"/", "srv", "public">>
Fullpath(path) == Basepath \o Resolve(path)

\* The sandbox-relative path of the file an absolute path names.
Relative(fullpath) == SubSeq(fullpath, Len(Basepath) + 1, Len(fullpath))

\* getSecureFullpath(path): [error, path], the absolute path of a secure
\* path, SecurityError otherwise.
get_secure_fullpath(path) ==
    IF IsSecure(path) THEN [error |-> Ok, path |-> Fullpath(path)]
    ELSE [error |-> "SecurityError", path |-> <<>>]

\* createFolder(name, folder): directories hold no content; the path of the
\* folder is returned.
FsCreateFolder(fs, name, folder) ==
    IF ~is_filename(<<name>>) \/ ~IsSecure(folder \o <<name>>)
    THEN FsResult("SecurityError", fs, <<>>)
    ELSE FsResult(Ok, fs, Resolve(folder \o <<name>>))

\* A file written at an absolute path.
WriteFile(fs, fullpath, bytes) ==
    [p \in DOMAIN fs \cup {Relative(fullpath)} |->
        IF p = Relative(fullpath) THEN bytes ELSE fs[p]]

\* exportTable(path, targetPath): the table of the file at path is written
\* to targetPath; NotFoundError when the file has no Record.  Both paths
\* are absolute.
DbExportTable(recs, fs, source, target) ==
    IF Relative(source) \notin DOMAIN recs
    THEN FsResult("NotFoundError", fs, <<>>)
    ELSE FsResult(Ok, WriteFile(fs, target, recs[Relative(source)].fields),
                  target)

\* saveTable(path, patch, basepath): the patch is applied to the table and
\* to its file, and the Record's metadata is derived again.
DbSaveTable(recs, fs, path, patch) ==
    IF path \notin DOMAIN recs
    THEN [error |-> "NotFoundError", records |-> recs, files |-> fs]
    ELSE [error |-> Ok,
          records |-> [recs EXCEPT ![path] = Index(path, patch)],
          files |-> WriteFile(fs, Fullpath(path), patch)]

\* ------------------------------------------------------ Project: the calls

NoJson == [key |-> ""]

NoCall == [op |-> "none", path |-> <<>>, folder |-> None, name |-> "",
           bytes |-> 0, target |-> <<>>, text |-> "", data |-> NoJson]

CallsOf(op, paths, folders, names, bytes) ==
    {[op |-> op, path |-> p, folder |-> f, name |-> n, bytes |-> b,
      target |-> <<>>, text |-> "", data |-> NoJson] :
        p \in paths, f \in folders, n \in names, b \in bytes}

Calls ==
    CallsOf("upload_file", {<<>>}, Folders, UploadNames, Bytes)
    \cup CallsOf("copy_file", PathInputs, Folders, {""}, {0})
    \cup CallsOf("delete_file", PathInputs, {None}, {""}, {0})
    \cup CallsOf("index_file", PathInputs, {None}, {""}, {0})
    \cup CallsOf("list_files", {<<>>}, {None}, {""}, {0})
    \cup CallsOf("move_file", PathInputs, Folders, {""}, {0})
    \cup CallsOf("read_file", PathInputs, {None}, {""}, {0})
    \cup CallsOf("rename_file", PathInputs, {None}, RenameNames, {0})
    \cup CallsOf("read_table", PathInputs, {None}, {""}, {0})

\* A call's local variables: source and target (move_file, rename_file),
\* file (read_file, index_file), mapping (list_files).
NoLocal == [source |-> <<>>, target |-> <<>>, file |-> NoFile, mapping |-> {}]

\* What a call gave its caller: a return value or a raised error.
NoResult == [status |-> "none", error |-> Ok, path |-> <<>>, file |-> NoFile,
             items |-> {}, data |-> 0, text |-> "", json |-> NoJson]
Raised(error) == [NoResult EXCEPT !.status = "raise", !.error = error]
ReturnedPath(path) == [NoResult EXCEPT !.status = "return", !.path = path]
ReturnedFile(file) == [NoResult EXCEPT !.status = "return", !.file = file]
ReturnedItems(items) == [NoResult EXCEPT !.status = "return", !.items = items]
ReturnedData(data) == [NoResult EXCEPT !.status = "return", !.data = data]
ReturnedText(text) == [NoResult EXCEPT !.status = "return", !.text = text]
ReturnedJson(json) == [NoResult EXCEPT !.status = "return", !.json = json]
ReturnedNone == [NoResult EXCEPT !.status = "return"]

Init ==
    /\ files = <<>>
    /\ records = <<>>
    /\ pc = [c \in Callers |-> "idle"]
    /\ call = [c \in Callers |-> NoCall]
    /\ local = [c \in Callers |-> NoLocal]
    /\ result = [c \in Callers |-> NoResult]
    /\ nops = 0

\* The call of c ends: it returns or raises r.
Finish(c, r) ==
    /\ pc' = [pc EXCEPT ![c] = "idle"]
    /\ result' = [result EXCEPT ![c] = r]
    /\ local' = [local EXCEPT ![c] = NoLocal]

\* The call of c goes on at label (the action sets its local variables).
Goto(c, label) ==
    /\ pc' = [pc EXCEPT ![c] = label]
    /\ UNCHANGED result

\* A caller invokes a Project method.
Start(c) ==
    /\ pc[c] = "idle"
    /\ nops < MaxOps
    /\ \E k \in Calls :
          /\ call' = [call EXCEPT ![c] = k]
          /\ pc' = [pc EXCEPT ![c] = k.op]
    /\ result' = [result EXCEPT ![c] = NoResult]
    /\ nops' = nops + 1
    /\ UNCHANGED <<files, records, local>>

\* upload_file and save_file: filesystem.create_file(name, bytes, folder).
upload_file(c) ==
    /\ pc[c] = "upload_file"
    /\ LET r == FsCreateFile(files, call[c].name, call[c].bytes, call[c].folder)
       IN  /\ files' = r.files
           /\ Finish(c, IF r.error = Ok THEN ReturnedPath(r.path)
                        ELSE Raised(r.error))
    /\ UNCHANGED <<records, call, nops>>

copy_file(c) ==
    /\ pc[c] = "copy_file"
    /\ LET r == FsCopyFile(files, call[c].path, call[c].folder)
       IN  /\ files' = r.files
           /\ Finish(c, IF r.error = Ok THEN ReturnedPath(r.path)
                        ELSE Raised(r.error))
    /\ UNCHANGED <<records, call, nops>>

\* The calls that write to the database (delete_record, create_record,
\* move_record) may raise an error of the storage engine, "DatabaseError",
\* and then change nothing: fault is TRUE.

\* delete_file, line 93: database.delete_record(path).
delete_file_record(c) ==
    /\ pc[c] = "delete_file"
    /\ \E fault \in BOOLEAN :
          IF fault
          THEN /\ Finish(c, Raised("DatabaseError"))
               /\ UNCHANGED records
          ELSE /\ records' = DbDeleteRecord(records, call[c].path).records
               /\ Goto(c, "delete_file_filesystem")
               /\ UNCHANGED local
    /\ UNCHANGED <<files, call, nops>>

\* delete_file, lines 94-95: filesystem.delete_file(path); return path.
delete_file_filesystem(c) ==
    /\ pc[c] = "delete_file_filesystem"
    /\ LET r == FsDeleteFile(files, call[c].path)
       IN  /\ files' = r.files
           /\ Finish(c, IF r.error = Ok THEN ReturnedPath(call[c].path)
                        ELSE Raised(r.error))
    /\ UNCHANGED <<records, call, nops>>

\* read_file, lines 123-125: item = filesystem.read_file(path); if item:
\* file = IFile(item).  Without an item the method returns None, and so
\* does index_file (line 100).  Shared by read_file and by index_file
\* (line 99), which go on at next.
ReadFileItem(c, next) ==
    LET r == FsReadFile(files, call[c].path)
    IN  IF r.error # Ok
        THEN Finish(c, Raised(r.error))
        ELSE IF r.path = <<>>
        THEN Finish(c, ReturnedFile(NoFile))
        ELSE /\ local' = [local EXCEPT
                            ![c].file = [path |-> r.path, record |-> NoRecord]]
             /\ Goto(c, next)

\* read_file, lines 126-129: record = database.read_record(path);
\* if record: file["record"] = record.
ReadFileRecord(c) ==
    LET record == DbReadRecord(records, call[c].path)
    IN  IF record # NoRecord
        THEN [local[c].file EXCEPT !.record = record]
        ELSE local[c].file

read_file_filesystem(c) ==
    /\ pc[c] = "read_file"
    /\ ReadFileItem(c, "read_file_record")
    /\ UNCHANGED <<files, records, call, nops>>

read_file_record(c) ==
    /\ pc[c] = "read_file_record"
    /\ Finish(c, ReturnedFile(ReadFileRecord(c)))
    /\ UNCHANGED <<files, records, call, nops>>

\* index_file, line 99: file = self.read_file(path), its filesystem part.
index_file_filesystem(c) ==
    /\ pc[c] = "index_file"
    /\ ReadFileItem(c, "index_file_record")
    /\ UNCHANGED <<files, records, call, nops>>

\* index_file, lines 99-101 and 104: the record part of read_file; a file
\* that carries a record is returned as it is.
index_file_record(c) ==
    /\ pc[c] = "index_file_record"
    /\ IF ReadFileRecord(c).record # NoRecord
       THEN Finish(c, ReturnedFile(ReadFileRecord(c)))
       ELSE /\ local' = [local EXCEPT ![c].file = ReadFileRecord(c)]
            /\ Goto(c, "index_file_create")
    /\ UNCHANGED <<files, records, call, nops>>

\* index_file, lines 102-104: resource = Resource(path=path);
\* file["record"] = database.create_record(resource); return file.
index_file_create(c) ==
    /\ pc[c] = "index_file_create"
    /\ \E fault \in BOOLEAN :
          LET r == IF fault THEN DbResult("DatabaseError", records, NoRecord)
                   ELSE DbCreateRecord(records, files, call[c].path)
              file == [local[c].file EXCEPT !.record = r.record]
          IN  /\ records' = r.records
              /\ Finish(c, IF r.error = Ok THEN ReturnedFile(file)
                           ELSE Raised(r.error))
    /\ UNCHANGED <<files, call, nops>>

\* list_files, lines 107-108: records = database.list_records().
list_files_records(c) ==
    /\ pc[c] = "list_files"
    /\ local' = [local EXCEPT ![c].mapping = DbListRecords(records)]
    /\ Goto(c, "list_files_items")
    /\ UNCHANGED <<files, records, call, nops>>

\* list_files, lines 109-114: the filesystem's items, each with the
\* errorCount of the record mapped at its path.
JoinItems_unjoined(items, mapping) == items

JoinItems(items, mapping) ==
    {IF \E record \in mapping : record.path = item.path
     THEN LET record == CHOOSE r \in mapping : r.path = item.path
          IN  [path |-> item.path, type |-> item.type,
               errorCount |-> record.errorCount]
     ELSE item : item \in items}

list_files_items(c) ==
    /\ pc[c] = "list_files_items"
    /\ Finish(c, ReturnedItems(JoinItems(FsListFiles(files), local[c].mapping)))
    /\ UNCHANGED <<files, records, call, nops>>

\* move_file, lines 117-118: source = path;
\* target = filesystem.move_file(path, folder=folder).
move_file_filesystem(c) ==
    /\ pc[c] = "move_file"
    /\ LET r == FsMoveFile(files, call[c].path, call[c].folder)
       IN  /\ files' = r.files
           /\ IF r.error = Ok
              THEN /\ local' = [local EXCEPT ![c].source = call[c].path,
                                             ![c].target = r.path]
                   /\ Goto(c, "move_record")
              ELSE Finish(c, Raised(r.error))
    /\ UNCHANGED <<records, call, nops>>

\* rename_file, lines 132-133: source = path;
\* target = filesystem.rename_file(path, name=name).
rename_file_filesystem(c) ==
    /\ pc[c] = "rename_file"
    /\ LET r == FsRenameFile(files, call[c].path, call[c].name)
       IN  /\ files' = r.files
           /\ IF r.error = Ok
              THEN /\ local' = [local EXCEPT ![c].source = call[c].path,
                                             ![c].target = r.path]
                   /\ Goto(c, "move_record")
              ELSE Finish(c, Raised(r.error))
    /\ UNCHANGED <<records, call, nops>>

\* What move_file and rename_file give their caller when move_record
\* raised error after the filesystem step succeeded: the error as it is.
MoveRecordFailure(error) == Raised(error)

\* move_record with the two paths exchanged: move_record(target, source).
move_record_swapped(c) ==
    /\ pc[c] = "move_record"
    /\ \E fault \in BOOLEAN :
          LET r == IF fault THEN DbResult("DatabaseError", records, NoRecord)
                   ELSE DbMoveRecord(records, local[c].target, local[c].source)
          IN  /\ records' = r.records
              /\ Finish(c, IF r.error = Ok THEN ReturnedPath(local[c].target)
                           ELSE MoveRecordFailure(r.error))
    /\ UNCHANGED <<files, call, nops>>

\* move_file, lines 119-120, and rename_file, lines 134-135:
\* database.move_record(source, target); return target.
move_record(c) ==
    /\ pc[c] = "move_record"
    /\ \E fault \in BOOLEAN :
          LET r == IF fault THEN DbResult("DatabaseError", records, NoRecord)
                   ELSE DbMoveRecord(records, local[c].source, local[c].target)
          IN  /\ records' = r.records
              /\ Finish(c, IF r.error = Ok THEN ReturnedPath(local[c].target)
                           ELSE MoveRecordFailure(r.error))
    /\ UNCHANGED <<files, call, nops>>

\* read_table, line 243: database.read_table(path, ...).
read_table(c) ==
    /\ pc[c] = "read_table"
    /\ LET r == DbReadTable(records, call[c].path)
       IN  Finish(c, IF r.error = Ok THEN ReturnedData(r.data)
                     ELSE Raised(r.error))
    /\ UNCHANGED <<files, records, call, nops>>

\* ------------------------------------------- Project: the other methods

\* create_file, line 79: name = str(path.split("/")[-1]).  A source is a
\* sequence of characters.
RECURSIVE LastSegment(_)
LastSegment(chars) ==
    IF \A i \in 1..Len(chars) : chars[i] # "/" THEN chars
    ELSE LastSegment(Tail(chars))

\* create_file, lines 80-81: if "?" in name: name = name.split("?")[0].
RECURSIVE BeforeQuery(_)
BeforeQuery(chars) ==
    IF chars = <<>> \/ Head(chars) = "?" THEN <<>>
    ELSE <<Head(chars)>> \o BeforeQuery(Tail(chars))

WithExtension_always(name) == name \o <<".", "c", "s", "v">>

\* create_file, lines 82-83: if "." not in name: name = f"{name}.csv".
WithExtension(name) ==
    IF \A i \in 1..Len(name) : name[i] # "."
    THEN name \o <<".", "c", "s", "v">>
    ELSE name

\* create_file, lines 79-83: the name the file is stored under.
StoredName(source) == WithExtension(BeforeQuery(LastSegment(source)))

\* The string of a sequence of characters.
RECURSIVE Join(_)
Join(chars) == IF chars = <<>> THEN "" ELSE Head(chars) \o Join(Tail(chars))

\* The sources create_file is called with: a bare name, and a URL with a
\* directory and a query.
Sources == {<<"a">>, <<"d", "/", "a", ".", "c", "s", "v", "?", "v">>}

\* JSON documents and texts, and the bytes they are stored as.
JsonData == {[key |-> "value"], [key |-> "other"]}
Dumps(data) == IF data.key = "value" THEN 1 ELSE 2
Loads(bytes) == IF bytes = 1 THEN [key |-> "value"] ELSE [key |-> "other"]
Texts == {"x", "y"}
Encode(text) == IF text = "x" THEN 1 ELSE 2
Decode(bytes) == IF bytes = 1 THEN "x" ELSE "y"

\* The paths the JSON, text and table methods are called with.
SecuredPaths == {<<"a.csv">>} \cup EscapingInputs
ExportTargets == {<<"b.csv">>, <<"f", "b.csv">>, <<"..">>}
FolderNames == {"f"}
PACKAGE_PATH == <<"datapackage.json">>

MoreCalls ==
    CallsOf("create_file", Sources, Folders, {""}, {0})
    \cup CallsOf("save_file", {<<>>}, Folders, UploadNames, Bytes)
    \cup CallsOf("update_file", {<<"a.csv">>}, {None}, {""}, {0})
    \cup CallsOf("create_folder", {<<>>}, Folders, FolderNames, {0})
    \cup CallsOf("read_json", SecuredPaths, {None}, {""}, {0})
    \cup {[k EXCEPT !.data = d] :
            k \in CallsOf("write_json", SecuredPaths, {None}, {""}, {0}),
            d \in JsonData}
    \cup CallsOf("read_text", SecuredPaths, {None}, {""}, {0})
    \cup {[k EXCEPT !.text = t] :
            k \in CallsOf("write_text", SecuredPaths, {None}, {""}, {0}),
            t \in Texts}
    \cup CallsOf("create_package", {<<>>}, {None}, {""}, {0})
    \cup {[k EXCEPT !.target = t] :
            k \in CallsOf("export_table", SecuredPaths, {None}, {""}, {0}),
            t \in ExportTargets}
    \cup CallsOf("save_table", {<<"a.csv">>, <<"f", "a.csv">>}, {None}, {""},
                 Bytes)

\* A caller invokes one of the other Project methods.
StartMore(c) ==
    /\ pc[c] = "idle"
    /\ nops < MaxOps
    /\ \E k \in MoreCalls :
          /\ call' = [call EXCEPT ![c] = k]
          /\ pc' = [pc EXCEPT ![c] = k.op]
    /\ result' = [result EXCEPT ![c] = NoResult]
    /\ nops' = nops + 1
    /\ UNCHANGED <<files, records, local>>

\* create_file, lines 77-85: the bytes are read from the source, outside
\* the sandbox; the stored name goes to filesystem.create_file.
create_file(c) ==
    /\ pc[c] = "create_file"
    /\ \E bytes \in Bytes :
          LET r == FsCreateFile(files, Join(StoredName(call[c].path)), bytes,
                                call[c].folder)
          IN  /\ files' = r.files
              /\ Finish(c, IF r.error = Ok THEN ReturnedPath(r.path)
                           ELSE Raised(r.error))
    /\ UNCHANGED <<records, call, nops>>

\* save_file, lines 137-138: filesystem.create_file(name, bytes, folder).
save_file(c) ==
    /\ pc[c] = "save_file"
    /\ LET r == FsCreateFile(files, call[c].name, call[c].bytes, call[c].folder)
       IN  /\ files' = r.files
           /\ Finish(c, IF r.error = Ok THEN ReturnedPath(r.path)
                        ELSE Raised(r.error))
    /\ UNCHANGED <<records, call, nops>>

\* update_file, lines 140-142: pass.
update_file(c) ==
    /\ pc[c] = "update_file"
    /\ Finish(c, ReturnedNone)
    /\ UNCHANGED <<files, records, call, nops>>

\* create_folder, lines 151-152.
create_folder(c) ==
    /\ pc[c] = "create_folder"
    /\ LET r == FsCreateFolder(files, call[c].name, call[c].folder)
       IN  Finish(c, IF r.error = Ok THEN ReturnedPath(r.path)
                     ELSE Raised(r.error))
    /\ UNCHANGED <<files, records, call, nops>>

\* A resource read at an absolute path: the bytes of the file, or the
\* error of a file that does not exist.
ReadResource(fs, fullpath) ==
    IF Relative(fullpath) \in DOMAIN fs
    THEN [error |-> Ok, bytes |-> fs[Relative(fullpath)]]
    ELSE [error |-> "FrictionlessException", bytes |-> 0]

\* read_json, lines 156-159.
read_json(c) ==
    /\ pc[c] = "read_json"
    /\ LET path == get_secure_fullpath(call[c].path)
           resource == ReadResource(files, path.path)
       IN  Finish(c, IF path.error # Ok THEN Raised(path.error)
                     ELSE IF resource.error # Ok THEN Raised(resource.error)
                     ELSE ReturnedJson(Loads(resource.bytes)))
    /\ UNCHANGED <<files, records, call, nops>>

\* write_json, lines 161-164.
write_json(c) ==
    /\ pc[c] = "write_json"
    /\ LET path == get_secure_fullpath(call[c].path)
       IN  IF path.error # Ok
           THEN /\ Finish(c, Raised(path.error))
                /\ UNCHANGED files
           ELSE /\ files' = WriteFile(files, path.path, Dumps(call[c].data))
                /\ Finish(c, ReturnedNone)
    /\ UNCHANGED <<records, call, nops>>

\* read_text, lines 255-258.
read_text(c) ==
    /\ pc[c] = "read_text"
    /\ LET path == get_secure_fullpath(call[c].path)
           resource == ReadResource(files, path.path)
       IN  Finish(c, IF path.error # Ok THEN Raised(path.error)
                     ELSE IF resource.error # Ok THEN Raised(resource.error)
                     ELSE ReturnedText(Decode(resource.bytes)))
    /\ UNCHANGED <<files, records, call, nops>>

\* write_text without line 261: the path is not resolved.
write_text_unsecured(c) ==
    /\ pc[c] = "write_text"
    /\ files' = WriteFile(files, Basepath \o Resolve(call[c].path),
                          Encode(call[c].text))
    /\ Finish(c, ReturnedNone)
    /\ UNCHANGED <<records, call, nops>>

\* write_text, lines 260-263.
write_text(c) ==
    /\ pc[c] = "write_text"
    /\ LET path == get_secure_fullpath(call[c].path)
       IN  IF path.error # Ok
           THEN /\ Finish(c, Raised(path.error))
                /\ UNCHANGED files
           ELSE /\ files' = WriteFile(files, path.path, Encode(call[c].text))
                /\ Finish(c, ReturnedNone)
    /\ UNCHANGED <<records, call, nops>>

\* create_package, lines 168-173: the package file is written unless it
\* exists; its path relative to the sandbox is returned.
create_package(c) ==
    /\ pc[c] = "create_package"
    /\ LET path == Basepath \o PACKAGE_PATH
       IN  /\ files' = IF Relative(path) \in DOMAIN files THEN files
                       ELSE WriteFile(files, path, Dumps([key |-> "value"]))
           /\ Finish(c, ReturnedPath(Relative(path)))
    /\ UNCHANGED <<records, call, nops>>

\* export_table, lines 225-230.
export_table(c) ==
    /\ pc[c] = "export_table"
    /\ LET target == get_secure_fullpath(call[c].target)
           source == get_secure_fullpath(call[c].path)
           r == DbExportTable(records, files, source.path, target.path)
       IN  IF ~is_filename(call[c].target)
           THEN /\ Finish(c, Raised("AssertionError"))
                /\ UNCHANGED files
           ELSE IF target.error # Ok
           THEN /\ Finish(c, Raised(target.error))
                /\ UNCHANGED files
           ELSE IF source.error # Ok
           THEN /\ Finish(c, Raised(source.error))
                /\ UNCHANGED files
           ELSE /\ files' = r.files
                /\ Finish(c, IF r.error = Ok THEN ReturnedPath(target.path)
                             ELSE Raised(r.error))
    /\ UNCHANGED <<records, call, nops>>

\* save_table, lines 245-250.
save_table(c) ==
    /\ pc[c] = "save_table"
    /\ LET r == DbSaveTable(records, files, call[c].path, call[c].bytes)
       IN  IF ~is_filename(call[c].path)
           THEN /\ Finish(c, Raised("AssertionError"))
                /\ UNCHANGED <<files, records>>
           ELSE /\ files' = r.files
                /\ records' = r.records
                /\ Finish(c, IF r.error = Ok THEN ReturnedPath(call[c].path)
                             ELSE Raised(r.error))
    /\ UNCHANGED <<call, nops>>

\* ------------------------------------------------------- specifications

Step(c) ==
    \/ Start(c)
    \/ upload_file(c)
    \/ copy_file(c)
    \/ delete_file_record(c)
    \/ delete_file_filesystem(c)
    \/ read_file_filesystem(c)
    \/ read_file_record(c)
    \/ index_file_filesystem(c)
    \/ index_file_record(c)
    \/ index_file_create(c)
    \/ list_files_records(c)
    \/ list_files_items(c)
    \/ move_file_filesystem(c)
    \/ rename_file_filesystem(c)
    \/ move_record(c)
    \/ read_table(c)

\* Callers run their calls concurrently, one collaborator call at a time.
Next == \E c \in Callers : Step(c)

Spec == Init /\ [][Next]_vars

\* The steps of the other methods.
StepMore(c) ==
    \/ StartMore(c)
    \/ create_file(c)
    \/ save_file(c)
    \/ update_file(c)
    \/ create_folder(c)
    \/ read_json(c)
    \/ write_json(c)
    \/ read_text(c)
    \/ write_text(c)
    \/ create_package(c)
    \/ export_table(c)
    \/ save_table(c)

\* One caller alone: each call runs to its end before the next starts.
NextSeq == Step(1) \/ StepMore(1)

SpecSeq == Init /\ [][NextSeq]_vars

\* Two callers, each with one call on the same path, from a sandbox that
\* holds a.csv (indexed) and f/a.csv (not indexed).
PairPaths == {<<"a.csv">>, <<"f", "a.csv">>}

PairCalls(p) ==
    CallsOf("rename_file", {p}, {None}, RenameNames, {0})
    \cup CallsOf("delete_file", {p}, {None}, {""}, {0})
    \cup CallsOf("index_file", {p}, {None}, {""}, {0})
    \cup CallsOf("move_file", {p}, {<<"g">>}, {""}, {0})

PairFiles == (<<"a.csv">> :> 1) @@ (<<"f", "a.csv">> :> 2)
PairRecords == (<<"a.csv">> :> Index(<<"a.csv">>, 1))

InitPair ==
    /\ files = PairFiles
    /\ records = PairRecords
    /\ \E p \in PairPaths :
          \E k1 \in PairCalls(p), k2 \in PairCalls(p) :
             /\ call = <<k1, k2>>
             /\ pc = <<k1.op, k2.op>>
    /\ local = [c \in Callers |-> NoLocal]
    /\ result = [c \in Callers |-> NoResult]
    /\ nops = Cardinality(Callers)

StepPair(c) ==
    \/ delete_file_record(c)
    \/ delete_file_filesystem(c)
    \/ index_file_filesystem(c)
    \/ index_file_record(c)
    \/ index_file_create(c)
    \/ move_file_filesystem(c)
    \/ rename_file_filesystem(c)
    \/ move_record(c)

NextPair == \E c \in Callers : StepPair(c)

SpecPair == InitPair /\ [][NextPair]_vars

\* A call run alone from the sandbox w = [files, records], the database
\* raising nothing of its own: the sandbox and the result it leaves.
Outcome(fs, recs, r) == [files |-> fs, records |-> recs, result |-> r]

\* delete_file, lines 92-95.
RunDeleteFile(w, k) ==
    LET d == DbDeleteRecord(w.records, k.path)
        r == FsDeleteFile(w.files, k.path)
    IN  Outcome(r.files, d.records,
                IF r.error = Ok THEN ReturnedPath(k.path) ELSE Raised(r.error))

\* index_file, lines 98-104, with read_file, lines 122-129.
RunIndexFile(w, k) ==
    LET item == FsReadFile(w.files, k.path)
        record == DbReadRecord(w.records, k.path)
        created == DbCreateRecord(w.records, w.files, k.path)
    IN  IF item.error # Ok
        THEN Outcome(w.files, w.records, Raised(item.error))
        ELSE IF record # NoRecord
        THEN Outcome(w.files, w.records,
                     ReturnedFile([path |-> item.path, record |-> record]))
        ELSE Outcome(w.files, created.records,
                     IF created.error = Ok
                     THEN ReturnedFile([path |-> item.path,
                                        record |-> created.record])
                     ELSE Raised(created.error))

\* move_file, lines 116-120, and rename_file, lines 131-135.
RunMove(w, k) ==
    LET r == IF k.op = "move_file"
             THEN FsMoveFile(w.files, k.path, k.folder)
             ELSE FsRenameFile(w.files, k.path, k.name)
        m == DbMoveRecord(w.records, k.path, r.path)
    IN  IF r.error # Ok THEN Outcome(w.files, w.records, Raised(r.error))
        ELSE Outcome(r.files, m.records,
                     IF m.error = Ok THEN ReturnedPath(r.path)
                     ELSE MoveRecordFailure(m.error))

Run(w, k) ==
    IF k.op = "delete_file" THEN RunDeleteFile(w, k)
    ELSE IF k.op = "index_file" THEN RunIndexFile(w, k)
    ELSE RunMove(w, k)

\* The sandbox and the two results when first runs to its end before
\* second starts.
Serial(w, first, second) ==
    LET a == Run(w, first)
        b == Run(a, second)
    IN  [files |-> b.files, records |-> b.records,
         first |-> a.result, second |-> b.result]

\* -------------------------------------------------- the name of create_file

\* The characters of a source, and every source of up to MaxSourceLen
\* of them.
SourceChars == {"a", "/", "?", "."}
SourcesUpTo(n) == UNION {[1..m -> SourceChars] : m \in 0..n}

\* One caller creates a file from any source in an empty sandbox.
InitName ==
    /\ files = <<>>
    /\ records = <<>>
    /\ pc = [c \in Callers |-> IF c = 1 THEN "create_file" ELSE "idle"]
    /\ \E source \in SourcesUpTo(MaxSourceLen) :
          call = [c \in Callers |->
                    IF c = 1
                    THEN [NoCall EXCEPT !.op = "create_file", !.path = source]
                    ELSE NoCall]
    /\ local = [c \in Callers |-> NoLocal]
    /\ result = [c \in Callers |-> NoResult]
    /\ nops = 1

NextName == create_file(1)

SpecName == InitName /\ [][NextName]_vars

\* --------------------------------------------------- Project construction

\* assert len(session) == 22, and secrets.token_urlsafe(16).
SessionLength == 22
TokenBytes == 16

\* The characters of a URL-safe token, and the characters of a session
\* identifier a caller supplies.
UrlSafeChars == {"a", "-", "_"}
SessionChars == UrlSafeChars \cup {"/", "."}

\* A string of n characters: first, then fill.
Filled(first, fill, n) == [i \in 1..n |-> IF i = 1 THEN first ELSE fill]

\* Python's None for the session, and a session of the given characters.
NoSession == [given |-> FALSE, chars |-> <<>>]
SessionOf(chars) == [given |-> TRUE, chars |-> chars]

\* The sessions a Project is constructed with: None, the empty string, and
\* strings of 21, 22 and 23 characters.
Sessions ==
    {NoSession, SessionOf(<<>>)}
    \cup {SessionOf(Filled(first, fill, n)) :
            first \in SessionChars, fill \in SessionChars,
            n \in {SessionLength - 1, SessionLength, SessionLength + 1}}

\* secrets.token_urlsafe(nbytes): nbytes random bytes in unpadded base64
\* of the URL-safe alphabet.
token_urlsafe(nbytes) ==
    {Filled(first, fill, (4 * nbytes + 2) \div 3) :
        first \in UrlSafeChars, fill \in UrlSafeChars}

\* Python's truth value of a session: None and "" are false.
Truthy(session) == session.given /\ session.chars # <<>>

\* A constructed Project, and a constructor that raised.
Constructed(is_root, session) ==
    [status |-> "return", error |-> Ok, is_root |-> is_root,
     session |-> session]
NotConstructed(error) ==
    [status |-> "raise", error |-> error, is_root |-> FALSE,
     session |-> NoSession]

\* One caller constructs a Project with any session and any is_root.
InitProject ==
    /\ files = <<>>
    /\ records = <<>>
    /\ pc = [c \in Callers |-> IF c = 1 THEN "__init__" ELSE "idle"]
    /\ \E session \in Sessions, is_root \in BOOLEAN :
          call = [c \in Callers |->
                    IF c = 1
                    THEN [op |-> "__init__", session |-> session,
                          is_root |-> is_root]
                    ELSE NoCall]
    /\ local = [c \in Callers |-> NoLocal]
    /\ result = [c \in Callers |-> NoResult]
    /\ nops = 1

\* __init__, lines 31-60: the authorisation part; the directories and the
\* collaborators follow from the session.
init(c) ==
    /\ pc[c] = "__init__"
    /\ LET given == call[c].session
           is_root == call[c].is_root
       IN  IF is_root
           THEN Finish(c, IF Truthy(given) THEN NotConstructed("AssertionError")
                          ELSE Constructed(is_root, given))
           ELSE \E token \in token_urlsafe(TokenBytes) :
                   LET session == IF Truthy(given) THEN given
                                  ELSE SessionOf(token)
                   IN  Finish(c,
                          IF Len(session.chars) = SessionLength
                          THEN Constructed(is_root, session)
                          ELSE NotConstructed("AssertionError"))
    /\ UNCHANGED <<files, records, call, nops>>

NextProject == init(1)

SpecProject == InitProject /\ [][NextProject]_vars

\* ------------------------------------------------------ publish_package

\* The keys of controls (lines 177-181) and a type that is none of them.
ControlTypes == {"github", "zenodo", "ckan"}
PublishTypes == ControlTypes \cup {"bitbucket"}

\* What package.publish does with a control: it returns its result, raises
\* the library's FrictionlessException, or raises another error (a control
\* built from parameters it does not take, a failure below the portal).
PublishOutcomes == {"result", "FrictionlessException", "Exception"}

\* The parameter sets: type and allow_update, with or without the keys
\* sandbox and url.
PublishParams ==
    {[type |-> t, allow_update |-> u, has_sandbox |-> s, has_url |-> h] :
        t \in PublishTypes, u \in BOOLEAN, s \in BOOLEAN, h \in BOOLEAN}

\* The result of package.publish: a repository for github, a URL otherwise.
PublishResult(type, has_url) ==
    IF type = "github" THEN [full_name |-> "owner/package"]
    ELSE IF has_url THEN [url |-> "https://portal/target"]
    ELSE [url |-> "https://portal/new"]

\* One caller publishes with any parameter set, and the collaborator
\* answers in any of its ways.
InitPublish ==
    /\ files = <<>>
    /\ records = <<>>
    /\ pc = [c \in Callers |-> IF c = 1 THEN "publish_package" ELSE "idle"]
    /\ \E params \in PublishParams, outcome \in PublishOutcomes :
          call = [c \in Callers |->
                    IF c = 1
                    THEN [op |-> "publish_package", params |-> params,
                          outcome |-> outcome]
                    ELSE NoCall]
    /\ local = [c \in Callers |-> NoLocal]
    /\ result = [c \in Callers |-> NoResult]
    /\ nops = 1

\* The response mapping returned, and an exception that leaves the method.
Response(response) ==
    [status |-> "return", error |-> Ok, response |-> response]
Propagated(error) ==
    [status |-> "raise", error |-> error, response |-> <<>>]

\* publish_package, lines 175-213.  Line 186, del params["sandbox"], raises
\* KeyError without the key; an unknown type returns the error of line 198;
\* of the errors of lines 201-209 only FrictionlessException is caught.
publish_package(c) ==
    /\ pc[c] = "publish_package"
    /\ LET params == call[c].params
           outcome == call[c].outcome
       IN  Finish(c,
              IF ~params.has_sandbox
              THEN Propagated("KeyError")
              ELSE IF params.type \notin ControlTypes
              THEN Response("error" :> "Matching control not found")
              ELSE IF outcome = "FrictionlessException"
              THEN Response("error" :> outcome)
              ELSE IF outcome # "result"
              THEN Propagated(outcome)
              ELSE LET r == PublishResult(params.type, params.has_url)
                   IN  Response("url" :> IF params.type = "github"
                                         THEN r.full_name ELSE r.url))
    /\ UNCHANGED <<files, records, call, nops>>

NextPublish == publish_package(1)

SpecPublish == InitPublish /\ [][NextPublish]_vars

\* ------------------------------------------------------------- claims

\* The Records kept for the file at sandbox-relative path f: those whose
\* key names f.
RecordsOf(recs, f) == {k \in DOMAIN recs : Resolve(k) = f}

Moves == {"move_file", "rename_file"}

\* C1: once every call has returned or raised, every Record has a file at
\* its path.
C1_NoOrphanRecord ==
    (\A c \in Callers : pc[c] = "idle")
        => \A k \in DOMAIN records : Resolve(k) \in DOMAIN files

\* The steps that are calls of the record store.
DatabaseSteps ==
    {"delete_file", "read_file_record", "index_file_record",
     "index_file_create", "list_files", "move_record", "read_table"}

\* C2: a call with a path that escapes the sandbox makes no record-store
\* call, changes neither the filesystem nor the record store, and ends
\* with SecurityError.
C2_EscapingPathRejected ==
    [][\A c \in Callers :
          (pc[c] # "idle" /\ pc'[c] # pc[c] /\ call[c].path # <<>>
           /\ ~IsSecure(call[c].path))
              => /\ pc[c] \notin DatabaseSteps
                 /\ files' = files
                 /\ records' = records
                 /\ pc'[c] = "idle"
                 /\ result'[c] = Raised("SecurityError")]_vars

\* C6: in move_file and rename_file a filesystem step that succeeds is
\* followed in the same call by move_record(old path, new path), which
\* re-keys the Record of the old path to the new path when it returns; a
\* filesystem step that fails ends the call with its error, without
\* move_record and with the record store as it was.
C6_RecordStepFollowsFilesystemStep ==
    [][\A c \in Callers :
          /\ (pc[c] \in Moves /\ pc'[c] # pc[c] /\ files' # files)
                => /\ pc'[c] = "move_record"
                   /\ local'[c].source = call[c].path
                   /\ local'[c].target \in DOMAIN files' \ DOMAIN files
                   /\ records' = records
          /\ (pc[c] \in Moves /\ pc'[c] # pc[c] /\ files' = files)
                => /\ pc'[c] = "idle"
                   /\ result'[c].status = "raise"
                   /\ records' = records
          /\ (pc[c] = "move_record" /\ result'[c].status = "return")
                => /\ result'[c].path = local[c].target
                   /\ call[c].path \in DOMAIN records
                        => /\ DOMAIN records' =
                                (DOMAIN records \ {call[c].path})
                                    \cup {local[c].target}
                           /\ records'[local[c].target].fields =
                                records[call[c].path].fields
                   /\ call[c].path \notin DOMAIN records
                        => records' = records
          /\ (pc[c] # "move_record" /\ pc'[c] = "move_record")
                => pc[c] \in Moves]_vars

\* A move_file or rename_file of an indexed file has returned its new
\* path, and the Record is keyed there.
C6_Witness ==
    \E c \in Callers :
        /\ pc[c] = "idle"
        /\ call[c].op \in Moves
        /\ result[c].status = "return"
        /\ result[c].path \in DOMAIN records
        /\ call[c].path \notin DOMAIN records

\* C7: when the filesystem step of move_file or rename_file succeeded and
\* move_record fails, the caller gets PartialFailureError.
C7_PartialFailureSurfaced ==
    [][\A c \in Callers :
          (pc[c] = "move_record" /\ result'[c].status = "raise")
              => result'[c].error = "PartialFailureError"]_vars

\* C3: no read_file or list_files of another caller returns the file of
\* an indexed move_file or rename_file at its new path without its Record
\* while the Record is still keyed at the old path.
C3_MoveObservedAtomically ==
    [][\A c, m \in Callers :
          (c # m /\ pc[m] = "move_record" /\ local[m].source \in DOMAIN records)
              => /\ ~ /\ pc[c] = "read_file_record"
                      /\ pc'[c] = "idle"
                      /\ call[c].path = local[m].target
                      /\ result'[c].file.path = local[m].target
                      /\ result'[c].file.record = NoRecord
                 /\ ~ /\ pc[c] = "list_files_items"
                      /\ pc'[c] = "idle"
                      /\ records[local[m].source] \in local[c].mapping
                      /\ \E item \in result'[c].items :
                            /\ item.path = local[m].target
                            /\ "errorCount" \notin DOMAIN item]_vars

\* C5: a move_file or rename_file of an indexed file that returns leaves
\* exactly one Record for the file, keyed at the returned path, with the
\* fields and the error count it had; no Record and no file stay at the
\* old path.
C5_MoveKeepsOneRecord ==
    [][\A c \in Callers :
          (/\ pc[c] = "move_record"
           /\ result'[c].status = "return"
           /\ RecordsOf(records, Resolve(call[c].path)) # {})
              => LET old == Resolve(call[c].path)
                     new == result'[c].path
                 IN  /\ RecordsOf(records', new) = {new}
                     /\ \E k \in RecordsOf(records, old) :
                           /\ records'[new].fields = records[k].fields
                           /\ records'[new].errorCount = records[k].errorCount
                     /\ RecordsOf(records', old) = {}
                     /\ old \notin DOMAIN files'
                     /\ new \in DOMAIN files']_vars

\* C8: an index_file that returns leaves exactly one Record for the file
\* and returns it; on a file that has a Record it calls neither the
\* indexing collaborator nor create_record and leaves the store as it is.
C8_IndexFileIdempotent ==
    [][\A c \in Callers :
          (/\ call[c].op = "index_file"
           /\ pc[c] # "idle"
           /\ pc'[c] = "idle"
           /\ result'[c].status = "return")
              => LET f == Resolve(call[c].path)
                 IN  /\ Cardinality(RecordsOf(records', f)) = 1
                     /\ \E k \in RecordsOf(records', f) :
                           result'[c].file.record = records'[k]
                     /\ RecordsOf(records, f) # {}
                           => /\ pc[c] # "index_file_create"
                              /\ records' = records]_vars

\* C9: after a delete_file that returned, the file is gone, it is not in
\* list_files, no Record of the file is left and read_record of the path
\* is absent.
C9_DeleteRemovesFileAndRecord ==
    \A c \in Callers :
        (pc[c] = "idle" /\ call[c].op = "delete_file"
         /\ result[c].status = "return")
            => LET f == Resolve(call[c].path)
               IN  /\ f \notin DOMAIN files
                   /\ \A item \in JoinItems(FsListFiles(files),
                                            DbListRecords(records)) :
                         item.path # f
                   /\ DbReadRecord(records, call[c].path) = NoRecord
                   /\ RecordsOf(records, f) = {}

\* C10: delete_file removes no file in its record step, and when its
\* filesystem step removes the file no Record of that file exists.
C10_RecordRemovedBeforeFile ==
    [][\A c \in Callers :
          /\ (pc[c] = "delete_file" /\ pc'[c] # pc[c]) => files' = files
          /\ (pc[c] = "delete_file_filesystem" /\ files' # files)
                => /\ RecordsOf(records, Resolve(call[c].path)) = {}
                   /\ records' = records]_vars

\* C4: two concurrent calls on one path end in the sandbox and with the
\* results of one of their two sequential orders (the database raising
\* nothing of its own).
C4_SamePathSerialized ==
    (/\ \A c \in Callers : pc[c] = "idle" /\ result[c].status # "none"
     /\ \A c \in Callers : result[c].error # "DatabaseError")
        => LET w == [files |-> PairFiles, records |-> PairRecords]
               now == [files |-> files, records |-> records,
                       first |-> result[1], second |-> result[2]]
               swap(o) == [o EXCEPT !.first = o.second, !.second = o.first]
           IN  \/ now = Serial(w, call[1], call[2])
               \/ now = swap(Serial(w, call[2], call[1]))

\* The path a file named name is first wanted at in folder.
Wanted(folder, name) == Resolve(folder \o <<name>>)

\* C11: when the wanted name is taken in the target folder, create_file
\* stores the new file under a different name and leaves the existing file
\* as it is, whereas upload_file returns the existing path and replaces the
\* content there with the uploaded bytes.
C11_CreateDisambiguatesUploadOverwrites ==
    [][\A c \in Callers :
          /\ LET wanted == Wanted(call[c].folder,
                                  Join(StoredName(call[c].path)))
             IN  /\ pc[c] = "create_file"
                 /\ wanted \in DOMAIN files
                 /\ result'[c].status = "return"
                 => /\ result'[c].path # wanted
                    /\ files'[wanted] = files[wanted]
          /\ LET wanted == Wanted(call[c].folder, call[c].name)
             IN  /\ pc[c] = "upload_file"
                 /\ wanted \in DOMAIN files
                 => /\ result'[c] = ReturnedPath(wanted)
                    /\ files' = [files EXCEPT ![wanted] = call[c].bytes]]_vars

\* C12: copy_file leaves the record store unchanged, and the copy at the
\* returned path is unindexed (no Record is keyed at it), also when the
\* source is indexed.
C12_CopyIsUnindexed ==
    [][\A c \in Callers :
          pc[c] = "copy_file"
          => /\ records' = records
             /\ result'[c].status = "return"
                => /\ result'[c].path \in DOMAIN files'
                   /\ result'[c].path \notin DOMAIN records']_vars

\* C13: list_files returns one entry per file of the filesystem listing;
\* an entry carries errorCount, that of the Record, exactly when a Record
\* is keyed at the entry's path; nothing else of a Record is attached.
C13_ListFilesJoinsErrorCount ==
    [][\A c \in Callers :
          pc[c] = "list_files_items"
          => /\ result'[c].status = "return"
             /\ {item.path : item \in result'[c].items} = DOMAIN files
             /\ Cardinality(result'[c].items) = Cardinality(DOMAIN files)
             /\ \A item \in result'[c].items :
                   /\ item.type = FileType(item.path)
                   /\ IF item.path \in DOMAIN records
                      THEN /\ DOMAIN item = {"path", "type", "errorCount"}
                           /\ item.errorCount = records[item.path].errorCount
                      ELSE DOMAIN item = {"path", "type"}]_vars

\* list_files returned a listing with an indexed and an unindexed file.
C13_Witness ==
    \E c \in Callers :
        /\ pc[c] = "idle"
        /\ call[c].op = "list_files"
        /\ result[c].status = "return"
        /\ \E i, j \in result[c].items :
              /\ "errorCount" \in DOMAIN i
              /\ "errorCount" \notin DOMAIN j

\* The methods that reach the operating system with a path of the caller.
SecuredOps == {"read_json", "write_json", "read_text", "write_text",
               "export_table"}

\* The call of c has a path, or for export_table a target, that does not
\* stay inside the sandbox.
HasEscapingPath(c) ==
    \/ ~IsSecure(call[c].path)
    \/ call[c].op = "export_table" /\ ~IsSecure(call[c].target)

\* C14: read_json, write_json, read_text, write_text and export_table,
\* called with a path that is not inside the sandbox, raise; no file is
\* read or written and no Record changes.
C14_OsAccessBehindSecurePath ==
    [][\A c \in Callers :
          (pc[c] \in SecuredOps /\ HasEscapingPath(c))
          => /\ pc'[c] = "idle"
             /\ result'[c].status = "raise"
             /\ result'[c].error \in {"SecurityError", "AssertionError"}
             /\ result'[c].text = "" /\ result'[c].json = NoJson
             /\ files' = files
             /\ records' = records]_vars

\* write_text and export_table were refused a path outside the sandbox
\* while the sandbox held a file.
C14_Witness ==
    \E c \in Callers :
        /\ pc[c] = "idle"
        /\ call[c].op \in {"write_text", "export_table"}
        /\ HasEscapingPath(c)
        /\ result[c].status = "raise"
        /\ result[c].error = "SecurityError"
        /\ files # <<>>

\* C15: a constructed root Project has no session identifier; a constructed
\* Project that is not root has one, of exactly 22 URL-safe characters;
\* the construction of a root Project with a session identifier fails.
C15_SessionWellFormed ==
    \A c \in Callers :
        (pc[c] = "idle" /\ call[c].op = "__init__")
        => /\ result[c].status = "return"
              => IF result[c].is_root
                 THEN ~Truthy(result[c].session)
                 ELSE /\ result[c].session.given
                      /\ Len(result[c].session.chars) = SessionLength
                      /\ \A i \in 1..Len(result[c].session.chars) :
                            result[c].session.chars[i] \in UrlSafeChars
           /\ (call[c].is_root /\ Truthy(call[c].session))
              => result[c].status = "raise"

\* C16: publish_package raises nothing; with an unknown type or a failing
\* collaborator it returns a mapping with 'error' and no 'url', and with a
\* collaborator that succeeds a mapping with 'url' and no 'error'.
C16_PublishReturnsMapping ==
    \A c \in Callers :
        (pc[c] = "idle" /\ call[c].op = "publish_package")
        => /\ result[c].status = "return"
           /\ DOMAIN result[c].response =
                 IF /\ call[c].params.type \in ControlTypes
                    /\ call[c].outcome = "result"
                 THEN {"url"}
                 ELSE {"error"}

\* chars holds the character ch.
Has(chars, ch) == \E i \in 1..Len(chars) : chars[i] = ch

StepAt(labels) == \E c \in Callers : pc[c] \in labels /\ pc'[c] # pc[c]

\* C18: a Record comes into being only in index_file, for a path without
\* one (or under a new key in a move); it goes only in delete_file (or
\* under its old key in a move); its content changes only in a re-index
\* (or a save_table); and the re-index, update_file, replaces the Record of
\* an indexed file by the index of the file's present content.
C18_RecordLifecycle ==
    [][/\ DOMAIN records' \ DOMAIN records # {}
          => \/ \E c \in Callers : /\ pc[c] = "index_file_create"
                                   /\ call[c].path \notin DOMAIN records
             \/ StepAt({"move_record"})
       /\ DOMAIN records \ DOMAIN records' # {}
          => StepAt({"delete_file", "move_record"})
       /\ (\E k \in DOMAIN records \cap DOMAIN records' :
              records'[k] # records[k])
          => StepAt({"update_file", "save_table"})
       /\ \A c \in Callers :
             /\ pc[c] = "update_file"
             /\ call[c].path \in DOMAIN records
             /\ Resolve(call[c].path) \in DOMAIN files
             => records'[call[c].path] =
                   Index(call[c].path, files[Resolve(call[c].path)])]_vars

\* A path relative to the sandbox that stays inside it.
IsSandboxRelative(path) == Head(path) # "/" /\ Resolve(path) # Outside

\* C19: every path a Project method returns, alone, in a file or in a
\* listing, is relative to the sandbox and stays inside it.
C19_ReturnedPathsRelative ==
    \A c \in Callers :
        (pc[c] = "idle" /\ result[c].status = "return")
        => /\ result[c].path # <<>> => IsSandboxRelative(result[c].path)
           /\ result[c].file.path # <<>>
                 => IsSandboxRelative(result[c].file.path)
           /\ \A item \in result[c].items : IsSandboxRelative(item.path)

\* C20: every Record is keyed by the sandbox-relative path list_files
\* reports for its file, whatever spelling the caller used.
C20_RecordKeysCanonical ==
    \A k \in DOMAIN records :
        /\ k = Resolve(k)
        /\ records[k].path = k

====
